---- MODULE Spec2Model ----
(***************************************************************************)
(* Connection lifecycle of the MakeMyPC chat page                          *)
(* (src/frontend/app/page.tsx, component MakeMyPCPage).                    *)
(*                                                                         *)
(* The component is a React function component.  Every handler is a        *)
(* closure created by one render, so it reads the React state of THAT      *)
(* render (retryCount, queryTimeout, connectionState, error), while refs   *)
(* (wsRef, reconnectTimeoutRef, heartbeatCheckRef, healthCheckIntervalRef) *)
(* and functional updates (setRetryCount(prev => prev + 1)) see the        *)
(* current value.  The values a closure captured are carried here in an    *)
(* "env" record that is stored with every socket and every timer that was  *)
(* created by that closure.  One action is one browser task: the state     *)
(* updates a handler requests are applied together when it returns         *)
(* (React 18 batching) and the component re-renders before the next task.  *)
(***************************************************************************)
EXTENDS Integers, Sequences, FiniteSets, TLC

\* ------------------------------------------------------------------ bounds
MaxSockets == 2       \* sockets created in a run of Spec
MaxConnSockets == 4   \* sockets created in a run of SpecConn
MaxRetrySockets == 6  \* sockets created in a run of SpecRetry
MaxQuerySockets == 1  \* sockets created in a run of SpecQuery
MaxProbeSockets == 4  \* sockets created in a run of SpecProbe
MaxTeardownSockets == 3  \* sockets created in a run of SpecTeardown
MaxErrorSockets == 4  \* sockets created in a run of SpecError
MaxSendSockets == 2   \* sockets created in a run of SpecSend
MaxQueries == 1       \* queries accepted
MaxProbes == 1        \* health probes in flight at the same time
MaxMsgs == 2          \* messages in the chat log
MaxArrivals == 102    \* messages appended in a run of SpecBuffer

\* ------------------------------------------------------- program constants
maxRetries == 5
maxMessages == 100
queryTimeoutMs == 30000
heartbeatTimeoutMs == 60000
connectionTimeoutMs == 10000
healthCheckIntervalMs == 600000
maxQueryLength == 500
backoffCapMs == 30000

\* the sockets are numbered in the order of their creation
Max(a, b) == IF a > b THEN a ELSE b

Slots ==
  1..Max(Max(Max(MaxSockets, MaxConnSockets),
             Max(MaxRetrySockets, MaxQuerySockets)),
         Max(Max(MaxProbeSockets, MaxTeardownSockets),
             Max(MaxErrorSockets, MaxSendSockets)))

NullRef == 0         \* wsRef.current === null

ConnectionState ==
  {"connecting", "connected", "disconnected", "error", "reconnecting",
   "timeout", "server_error"}

ErrorType ==
  {"connection", "timeout", "server", "rate_limit", "parse", "network",
   "unknown"}

\* error === null
NoError ==
  [type |-> "none", message |-> "", retryable |-> FALSE, secs |-> 0,
   attempt |-> 0]

createError(type, message, retryable) ==
  [type |-> type, message |-> message, retryable |-> retryable, secs |-> 0,
   attempt |-> 0]

Min(a, b) == IF a < b THEN a ELSE b

\* Math.ceil(delay / 1000)
CeilSecs(delay) == (delay + 999) \div 1000

\* Math.min(Math.pow(2, retryCount) * 1000, 30000)
Delay(n) == Min((2 ^ n) * 1000, backoffCapMs)

\* ------------------------------------------------------------------- texts
\* A text is pre whitespace characters, core characters that start and end
\* with a non-whitespace character (none when core = 0), post whitespace
\* characters.
Text(pre, core, post) == [pre |-> pre, core |-> core, post |-> post]

\* String.prototype.trim
trim(t) ==
  IF t.core = 0 THEN Text(0, 0, 0) ELSE Text(0, t.core, 0)

length(t) == t.pre + t.core + t.post

\* the queries typed: nothing, blanks only, " Budget Gaming PC ", 501 characters
Queries == {Text(0, 0, 0), Text(2, 0, 0), Text(1, 16, 1), Text(0, 501, 0)}

Contents == {Text(0, 0, 0), Text(0, 7, 0)}

\* ------------------------------------------------------------------ frames
\* event.data of an inbound frame, by what JSON.parse and the checks of
\* ws.onmessage make of it:
\*   badjson     JSON.parse throws
\*   jsonnull    parses to null, reading message.type throws
\*   notype      an object without a (truthy) type
\*   badcontent  a type but a content that is not a string
\*   typed       a truthy type and a string content
FrameTypes ==
  {"heartbeat", "log", "final_output", "connection_status", "other"}

Frame(shape, type, content) ==
  [shape |-> shape, type |-> type, content |-> content]

\* the frames received: the content is varied where the handler uses it
Frames ==
  {Frame(sh, "none", Text(0, 0, 0)) :
     sh \in {"badjson", "jsonnull", "notype", "badcontent"}}
  \cup {Frame("typed", ty, Text(0, 7, 0)) : ty \in FrameTypes}
  \cup {Frame("typed", "final_output", Text(0, 0, 0))}

\* the close codes the transport reports
CloseCodes == {1000, 1003, 1006, 1008, 1013}

\* the close codes reported after close() without a code on an open socket:
\* no status in the peer's close frame (1005), a peer that answers 1000, or
\* a connection lost before the handshake ended (1006)
ClientCloseCodes == {1000, 1005, 1006}

\* --------------------------------------------------------------- variables
VARIABLES
  connectionState,   \* useState<ConnectionState>("disconnected")
  error,             \* useState<ErrorState | null>(null)
  retryCount,        \* useState(0)
  isLoading,         \* useState(false): a query is pending
  queryTimeout,      \* useState<Timeout | null>(null): 0 or a timer id
  messages,          \* useState<ChatMessage[]>([])
  hbRender,          \* state of the render that made startHeartbeatMonitoring
  wsRef,             \* wsRef.current
  socks,             \* the sockets whose close event is still to come
  reconnectTimer,    \* the timer behind reconnectTimeoutRef.current
  heartbeatTimer,    \* the timer behind heartbeatCheckRef.current
  healthInterval,    \* the interval behind healthCheckIntervalRef.current
  probes,            \* health probes (fetch) in flight
  qTimers,           \* the pending query timers
  nextTimer,         \* number of query timers created so far
  mounted,           \* the mount effect has run
  torn,              \* the cleanup of the mount effect has run (unmount)
  retriesSinceOpen,  \* history: retries scheduled since the last open/reconnect()
  last               \* history: the handler that ran last, with the close code

vars ==
  <<connectionState, error, retryCount, isLoading, queryTimeout, messages,
    hbRender, wsRef, socks, reconnectTimer, heartbeatTimer, healthInterval,
    probes, qTimers, nextTimer, mounted, torn, retriesSinceOpen, last>>

\* ------------------------------------------------------------ closure envs
\* What a connectWebSocket closure (and the handlers and timers it creates)
\* captured from its render, as far as the code reads it:
\*   rc    retryCount                      (ws.onclose)
\*   qt    queryTimeout                    (clearAllTimeouts, final_output)
\*   conn  connectionState === "connected" (heartbeat callback, health check)
\*   srv   error?.type === "server"        (health check)
\* startHeartbeatMonitoring is memoised on [lastHeartbeat, connectionState]
\* only and connectWebSocket is not among its dependencies, so the
\* connectWebSocket it calls is the one of the render that last changed one
\* of those two: hrc, hqt and hsrv are that render's rc, qt and srv.  That
\* call is made only when conn holds, so they are kept only then.
Env(rc, qt, cs, et, hrc, hqt, het) ==
  LET conn == cs = "connected"
  IN  [rc |-> rc, qt |-> qt, conn |-> conn, srv |-> (et = "server"),
       hrc |-> IF conn THEN hrc ELSE 0,
       hqt |-> IF conn THEN hqt ELSE 0,
       hsrv |-> conn /\ het = "server"]

NoEnv == Env(0, 0, "disconnected", "none", 0, 0, "none")

\* the connectWebSocket that a startHeartbeatMonitoring closure calls
HbEnv(env) ==
  [rc |-> env.hrc, qt |-> env.hqt, conn |-> env.conn, srv |-> env.hsrv,
   hrc |-> env.hrc, hqt |-> env.hqt, hsrv |-> env.hsrv]

\* what the heartbeat callback reads of its closure
HeartbeatEnv(env) == IF env.conn THEN HbEnv(env) ELSE NoEnv

\* what performHealthCheck reads of its closure
HealthEnv(env) == [NoEnv EXCEPT !.conn = env.conn, !.srv = env.srv]

NoTimer == [pending |-> FALSE, delay |-> 0, env |-> NoEnv]

Timer(delay, env) == [pending |-> TRUE, delay |-> delay, env |-> env]

\* rs is the socket's readyState: NONE before the socket is created,
\* CONNECTING, OPEN, CLOSING, CLOSED while its close event is still to come
\* (it follows the error event), GONE once the close event was delivered.
\* CLOSING is the state after close() on a socket that never opened,
\* CLOSING_CLEAN the readyState CLOSING after close() on an open socket, the
\* closing handshake being under way.
\* ct: the connectionTimeout guard of the socket is pending; out: the frames
\* written to it.
NoSock == [rs |-> "NONE", env |-> NoEnv, ct |-> FALSE, out |-> <<>>]

GoneSock == [rs |-> "GONE", env |-> NoEnv, ct |-> FALSE, out |-> <<>>]

\* new WebSocket(url) with the connectionTimeout guard armed
NewSock(env) ==
  [rs |-> "CONNECTING", env |-> env, ct |-> TRUE, out |-> <<>>]

\* ------------------------------------------------------- the state record
\* The handlers below are functions from this record to this record; an
\* action applies one handler to Cur and commits the result.
Cur ==
  [connectionState |-> connectionState, error |-> error,
   retryCount |-> retryCount, isLoading |-> isLoading,
   queryTimeout |-> queryTimeout, messages |-> messages, wsRef |-> wsRef,
   socks |-> socks, reconnectTimer |-> reconnectTimer,
   heartbeatTimer |-> heartbeatTimer, healthInterval |-> healthInterval,
   probes |-> probes, qTimers |-> qTimers, nextTimer |-> nextTimer,
   retriesSinceOpen |-> retriesSinceOpen, hbSet |-> FALSE]

\* the values the closures of the current render capture
CurEnv ==
  Env(retryCount, queryTimeout, connectionState, error.type, hbRender.rc,
      hbRender.qt, hbRender.et)

Live(s) == {i \in Slots : s.socks[i].rs \notin {"NONE", "GONE"}}

\* the number of sockets created so far
Created(s) == Cardinality({i \in Slots : s.socks[i].rs # "NONE"})

\* wsRef.current?.readyState
ReadyState(s) ==
  IF s.wsRef = NullRef THEN "NONE" ELSE s.socks[s.wsRef].rs

\* ---------------------------------------------------------------- helpers
clearAllTimeouts(s, qt) ==
  [s EXCEPT !.reconnectTimer = NoTimer,
            !.heartbeatTimer = NoTimer,
            !.qTimers = @ \ {qt},
            !.healthInterval = NoTimer]

addMessage_DropsNewest(s, m) ==
  LET newMessages == Append(s.messages, m)
      n == Len(newMessages)
  IN  [s EXCEPT !.messages =
         IF n > maxMessages
         THEN SubSeq(newMessages, 1, maxMessages)
         ELSE newMessages]

addMessage_Twice(s, m) ==
  [s EXCEPT !.messages = Append(Append(@, m), m)]

addMessage(s, m) ==
  LET newMessages == Append(s.messages, m)
      n == Len(newMessages)
  IN  [s EXCEPT !.messages =
         IF n > maxMessages
         THEN SubSeq(newMessages, n - maxMessages + 1, n)
         ELSE newMessages]

\* arms the heartbeat timer; its callback is HeartbeatCallback
startHeartbeatMonitoring(s, env) ==
  [s EXCEPT !.heartbeatTimer = Timer(heartbeatTimeoutMs, HeartbeatEnv(env))]

\* the fetch is started; its outcome is handled by healthCheckDone
performHealthCheck(s, env) ==
  [s EXCEPT !.probes = Append(@, HealthEnv(env))]

startHealthCheckMonitoring(s, env) ==
  [performHealthCheck(s, env) EXCEPT
     !.healthInterval = Timer(healthCheckIntervalMs, HealthEnv(env))]

\* the fetch of performHealthCheck settled: "ok" (response.ok), "bad" (a
\* response that is not ok) or "throw" (fetch rejected or timed out)
healthCheckDone(s, env, outcome) ==
  IF outcome = "bad"
  THEN IF env.conn
       THEN [s EXCEPT !.error =
               createError("server", "Backend service may be experiencing issues", TRUE)]
       ELSE s
  ELSE IF outcome = "ok"
  THEN IF env.srv THEN [s EXCEPT !.error = NoError] ELSE s
  ELSE IF env.conn
       THEN [s EXCEPT !.error =
               createError("network", "Backend service health check failed", TRUE)]
       ELSE s

\* --------------------------------------------------------- connectWebSocket
\* connectWebSocket creates no socket beyond the limit-th
CanConnect(s, limit) == ReadyState(s) = "OPEN" \/ Created(s) < limit

connectWebSocket(s, env) ==
  IF ReadyState(s) = "OPEN" THEN s
  ELSE LET s1 == clearAllTimeouts(s, env.qt)
           i == Created(s) + 1
       IN  [s1 EXCEPT !.connectionState = "connecting",
                      !.error = NoError,
                      !.socks[i] = NewSock(env),
                      !.wsRef = i]

\* the connectionTimeout callback of socket i
connectionTimeoutCallback(s, i) ==
  LET s1 == [s EXCEPT !.socks[i].ct = FALSE]
  IN  IF s.socks[i].rs = "CONNECTING"
      THEN [s1 EXCEPT !.socks[i].rs = "CLOSING",
                      !.error =
                        createError("timeout", "Connection timeout. Server may be overloaded.", TRUE),
                      !.connectionState = "timeout"]
      ELSE s1

onopen_KeepsAttempts(s, i) ==
  LET env == s.socks[i].env
      s1 == [s EXCEPT !.socks[i].ct = FALSE,
                      !.connectionState = "connected",
                      !.error = NoError,
                      !.hbSet = TRUE,
                      !.retriesSinceOpen = 0]
  IN  startHealthCheckMonitoring(startHeartbeatMonitoring(s1, env), env)

onopen(s, i) ==
  LET env == s.socks[i].env
      s1 == [s EXCEPT !.socks[i].ct = FALSE,
                      !.connectionState = "connected",
                      !.retryCount = 0,
                      !.error = NoError,
                      !.hbSet = TRUE,
                      !.retriesSinceOpen = 0]
  IN  startHealthCheckMonitoring(startHeartbeatMonitoring(s1, env), env)

ChatMessage(type, content) == [type |-> type, content |-> content]

\* setError(createError("parse", message, true)); return
parseFailure_DropsQuery(s, message) ==
  [s EXCEPT !.error = createError("parse", message, TRUE),
            !.isLoading = FALSE]

parseFailure(s, message) ==
  [s EXCEPT !.error = createError("parse", message, TRUE)]

onmessage(s, i, f) ==
  LET env == s.socks[i].env
  IN  IF f.shape = "badjson"
      THEN parseFailure(s, "Received invalid response from server")
      ELSE IF f.shape = "jsonnull"
      THEN parseFailure(s, "Failed to process server response")
      ELSE IF f.shape # "typed"
      THEN parseFailure(s, "Received malformed message from server")
      ELSE IF f.type = "connection_status"
      THEN s
      ELSE IF f.type = "heartbeat"
      THEN startHeartbeatMonitoring([s EXCEPT !.hbSet = TRUE], env)
      ELSE IF f.type = "log"
      THEN addMessage(s, ChatMessage("log", f.content))
      ELSE IF f.type = "final_output"
      THEN LET s1 == IF env.qt # 0
                     THEN [s EXCEPT !.qTimers = @ \ {env.qt},
                                    !.queryTimeout = 0]
                     ELSE s
           IN  [addMessage(s1, ChatMessage("ai", f.content)) EXCEPT
                  !.isLoading = FALSE]
      ELSE s

\* event.code === 1000
IsNormalClose_OffByOne(code) == code = 1001

IsNormalClose(code) == code = 1000

\* event.code === 1008 || event.code === 1003
IsRejection_Only1008(code) == code = 1008

IsRejection(code) == code = 1008 \/ code = 1003

\* retryCount < maxRetries, on the retryCount the closure captured
CanRetry_Inverted(rc) == rc > maxRetries

CanRetry(rc) == rc < maxRetries

\* the delay of the retry that ws.onclose schedules
RetryDelay(rc) == Delay(rc)

onclose(s, i, code) ==
  LET env == s.socks[i].env
      s1 == clearAllTimeouts([s EXCEPT !.socks[i].ct = FALSE], env.qt)
      s2 == [s1 EXCEPT !.isLoading = FALSE]
  IN  IF IsNormalClose(code)
      THEN [s2 EXCEPT !.connectionState = "disconnected"]
      ELSE IF IsRejection(code)
      THEN [s2 EXCEPT !.error =
              createError("server", "Server rejected connection. Please try again later.", FALSE),
                      !.connectionState = "server_error"]
      ELSE LET s3 == IF code = 1013
                     THEN [s2 EXCEPT !.error =
                             createError("rate_limit", "Server is currently overloaded. Retrying...", TRUE),
                                     !.connectionState = "server_error"]
                     ELSE [s2 EXCEPT !.connectionState = "disconnected"]
           IN  IF CanRetry(env.rc)
               THEN LET delay == RetryDelay(env.rc)
                    IN  [s3 EXCEPT
                           !.connectionState = "reconnecting",
                           !.error =
                             [type |-> "connection", message |-> "Reconnecting in",
                              retryable |-> TRUE, secs |-> CeilSecs(delay),
                              attempt |-> env.rc + 1],
                           !.reconnectTimer = Timer(delay, env),
                           !.retriesSinceOpen = @ + 1]
               ELSE [s3 EXCEPT
                       !.error =
                         createError("connection", "Connection failed after multiple attempts.", TRUE),
                       !.connectionState = "error"]

\* obs is the readyState the handler reads from the socket
onerror(s, i, obs) ==
  [s EXCEPT !.socks[i].ct = FALSE,
            !.connectionState = "error",
            !.isLoading = FALSE,
            !.error =
              IF obs = "CONNECTING"
              THEN createError("network", "Unable to connect to server.", TRUE)
              ELSE createError("connection", "Connection error occurred. Please try again.", TRUE)]

\* the callback of the reconnect timer set by ws.onclose
reconnectCallback(s) ==
  connectWebSocket([s EXCEPT !.reconnectTimer = NoTimer,
                             !.retryCount = @ + 1],
                   s.reconnectTimer.env)

\* the callback of the heartbeat timer; stale is the outcome of
\* Date.now() - lastHeartbeat > heartbeatTimeoutMs
heartbeatCallback(s, stale) ==
  LET env == s.heartbeatTimer.env
      s1 == [s EXCEPT !.heartbeatTimer = NoTimer]
  IN  IF stale /\ env.conn
      THEN connectWebSocket(
             [s1 EXCEPT !.error =
                          createError("connection", "Connection appears to be stale. Reconnecting...", TRUE),
                        !.connectionState = "timeout"],
             env)
      ELSE s1

\* the callback of the health-check interval
healthIntervalCallback(s) == performHealthCheck(s, s.healthInterval.env)

\* the callback of query timer t
queryTimeoutCallback_DropsSession(s, t) ==
  [s EXCEPT !.qTimers = @ \ {t},
            !.isLoading = FALSE,
            !.connectionState = "timeout",
            !.error =
              createError("timeout", "Query timed out. The server may be busy. Please try again.", TRUE)]

queryTimeoutCallback(s, t) ==
  [s EXCEPT !.qTimers = @ \ {t},
            !.isLoading = FALSE,
            !.error =
              createError("timeout", "Query timed out. The server may be busy. Please try again.", TRUE)]

\* what sendQuery does with query q: the name of the branch it takes
sendQueryOutcome_ConnectionFirst(s, q) ==
  IF s.connectionState # "connected" THEN "notconnected"
  ELSE IF trim(q).core = 0 THEN "empty"
  ELSE IF length(trim(q)) > maxQueryLength THEN "toolong"
  ELSE IF s.isLoading THEN "busy"
  ELSE IF ReadyState(s) = "CONNECTING" THEN "sendfailed"
  ELSE "accepted"

sendQueryOutcome_NoConnectionCheck(s, q) ==
  IF trim(q).core = 0 THEN "empty"
  ELSE IF length(trim(q)) > maxQueryLength THEN "toolong"
  ELSE IF s.isLoading THEN "busy"
  ELSE IF ReadyState(s) = "CONNECTING" THEN "sendfailed"
  ELSE "accepted"

sendQueryOutcome_NoBusyCheck(s, q) ==
  IF trim(q).core = 0 THEN "empty"
  ELSE IF length(trim(q)) > maxQueryLength THEN "toolong"
  ELSE IF s.connectionState # "connected" THEN "notconnected"
  ELSE IF ReadyState(s) = "CONNECTING" THEN "sendfailed"
  ELSE "accepted"

sendQueryOutcome(s, q) ==
  IF trim(q).core = 0 THEN "empty"
  ELSE IF length(trim(q)) > maxQueryLength THEN "toolong"
  ELSE IF s.connectionState # "connected" THEN "notconnected"
  ELSE IF s.isLoading THEN "busy"
  ELSE IF ReadyState(s) = "CONNECTING" THEN "sendfailed"
  ELSE "accepted"

\* the catch block of sendQuery: ws.send threw after the timer was armed
sendFailed_KeepsTimer(s, timeout) ==
  [s EXCEPT !.queryTimeout = 0,
            !.error =
              createError("network", "Failed to send query. Please try again.", TRUE),
            !.isLoading = FALSE]

sendFailed(s, timeout) ==
  [s EXCEPT !.qTimers = @ \ {timeout},
            !.queryTimeout = 0,
            !.error =
              createError("network", "Failed to send query. Please try again.", TRUE),
            !.isLoading = FALSE]

sendQuery(s, q) ==
  LET o == sendQueryOutcome(s, q)
  IN  IF o = "empty"
      THEN [s EXCEPT !.error = createError("unknown", "Please enter a query", FALSE)]
      ELSE IF o = "toolong"
      THEN [s EXCEPT !.error =
              createError("unknown", "Query is too long. Please keep it under 500 characters.", FALSE)]
      ELSE IF o = "notconnected"
      THEN [s EXCEPT !.error =
              createError("connection", "Not connected to server. Please wait for connection.", TRUE)]
      ELSE IF o = "busy"
      THEN [s EXCEPT !.error =
              createError("unknown", "Please wait for the current query to complete", FALSE)]
      ELSE LET timeout == s.nextTimer + 1
               s1 == [addMessage(s, ChatMessage("user", trim(q))) EXCEPT
                        !.isLoading = TRUE,
                        !.error = NoError,
                        !.nextTimer = timeout,
                        !.qTimers = @ \cup {timeout},
                        !.queryTimeout = timeout]
           IN  IF o = "sendfailed"
               THEN sendFailed(s1, timeout)
               ELSE IF ReadyState(s) = "OPEN"
               THEN [s1 EXCEPT !.socks[s.wsRef].out = Append(@, trim(q))]
               ELSE s1

handleReconnect(s, env) ==
  connectWebSocket(
    [clearAllTimeouts(s, env.qt) EXCEPT !.retryCount = 0,
                                        !.error = NoError,
                                        !.isLoading = FALSE,
                                        !.retriesSinceOpen = 0],
    env)

\* the Retry buttons are rendered
RetryShown(s) ==
  \/ s.error.type # "none" /\ s.error.retryable
  \/ s.connectionState \in {"error", "timeout", "server_error"}

\* ----------------------------------------------------------------- actions
\* the state after a handler returned: its state updates are applied and the
\* component renders again
\* Once the component is unmounted its state setters do nothing and it no
\* longer renders: what a handler does to refs, timers and sockets stays.
Commit(s0, op, arg) ==
  LET s == IF torn.done
           THEN [s0 EXCEPT !.connectionState = connectionState,
                           !.error = error,
                           !.retryCount = retryCount,
                           !.isLoading = isLoading,
                           !.queryTimeout = queryTimeout,
                           !.messages = messages,
                           !.hbSet = FALSE]
           ELSE s0
  IN
  /\ connectionState' = s.connectionState
  /\ error' = s.error
  /\ retryCount' = s.retryCount
  /\ isLoading' = s.isLoading
  /\ queryTimeout' = s.queryTimeout
  /\ messages' = s.messages
  /\ hbRender' =
       IF s.connectionState # "connected"
       THEN [rc |-> 0, qt |-> 0, et |-> "none"]
       ELSE IF s.hbSet \/ s.connectionState # connectionState
       THEN [rc |-> s.retryCount, qt |-> s.queryTimeout,
             et |-> IF s.error.type = "server" THEN "server" ELSE "none"]
       ELSE hbRender
  /\ wsRef' = s.wsRef
  /\ socks' = s.socks
  /\ reconnectTimer' = s.reconnectTimer
  /\ heartbeatTimer' = s.heartbeatTimer
  /\ healthInterval' = s.healthInterval
  /\ probes' = s.probes
  /\ qTimers' = s.qTimers
  /\ nextTimer' = s.nextTimer
  /\ retriesSinceOpen' = s.retriesSinceOpen
  /\ last' = <<op, arg>>

Init ==
  /\ connectionState = "disconnected"
  /\ error = NoError
  /\ retryCount = 0
  /\ isLoading = FALSE
  /\ queryTimeout = 0
  /\ messages = <<>>
  /\ hbRender = [rc |-> 0, qt |-> 0, et |-> "none"]
  /\ wsRef = NullRef
  /\ socks = [i \in Slots |-> NoSock]
  /\ reconnectTimer = NoTimer
  /\ heartbeatTimer = NoTimer
  /\ healthInterval = NoTimer
  /\ probes = <<>>
  /\ qTimers = {}
  /\ nextTimer = 0
  /\ mounted = FALSE
  /\ torn = [done |-> FALSE, created |-> 0]
  /\ retriesSinceOpen = 0
  /\ last = <<"init", 0>>

\* useEffect(() => { connectWebSocket(); ... }, [])
Mount ==
  /\ ~mounted
  /\ mounted' = TRUE
  /\ Commit(connectWebSocket(Cur, CurEnv), "mount", 0)
  /\ UNCHANGED torn

\* the cleanup of the mount effect: the component is unmounted
cleanup(s) ==
  LET s1 == [s EXCEPT !.reconnectTimer = NoTimer,
                      !.healthInterval = NoTimer]
  IN  IF ReadyState(s) = "CONNECTING"
      THEN [s1 EXCEPT !.socks[s.wsRef].rs = "CLOSING"]
      ELSE IF ReadyState(s) = "OPEN"
      THEN [s1 EXCEPT !.socks[s.wsRef].rs = "CLOSING_CLEAN"]
      ELSE s1

Unmount ==
  /\ mounted
  /\ ~torn.done
  /\ torn' = [done |-> TRUE, created |-> Created(Cur)]
  /\ Commit(cleanup(Cur), "unmount", 0)
  /\ UNCHANGED mounted

\* the transport opened socket i
OnOpen(i) ==
  /\ mounted
  /\ socks[i].rs = "CONNECTING"
  /\ Len(probes) < MaxProbes
  /\ Commit(onopen([Cur EXCEPT !.socks[i].rs = "OPEN"], i), "open", 0)
  /\ UNCHANGED <<mounted, torn>>

Appends(f) == f.shape = "typed" /\ f.type \in {"log", "final_output"}

\* frame f arrived on socket i
OnMessage(i, f) ==
  /\ mounted
  /\ socks[i].rs = "OPEN"
  /\ Appends(f) => Len(messages) < MaxMsgs
  /\ Commit(onmessage(Cur, i, f), "message", 0)
  /\ UNCHANGED <<mounted, torn>>

\* the close codes socket i can be closed with: a socket that never opened,
\* failed, or was closed by the client before it opened reports 1006
CodesOf(sock) ==
  IF sock.rs = "OPEN" THEN CloseCodes
  ELSE IF sock.rs = "CLOSING_CLEAN" THEN ClientCloseCodes
  ELSE {1006}

\* the close event of socket i; the socket is gone afterwards
OnClose(i, code) ==
  /\ mounted
  /\ i \in Live(Cur)
  /\ code \in CodesOf(socks[i])
  /\ Commit([onclose(Cur, i, code) EXCEPT !.socks[i] = GoneSock], "close", code)
  /\ UNCHANGED <<mounted, torn>>

\* the error event of socket i; its close event follows
OnError(i, obs) ==
  /\ mounted
  /\ socks[i].rs \in {"CONNECTING", "OPEN"}
  /\ obs \in {socks[i].rs, "CLOSED"}
  /\ Commit([onerror(Cur, i, obs) EXCEPT !.socks[i].rs = "CLOSED"], "error", 0)
  /\ UNCHANGED <<mounted, torn>>

ConnectionTimeoutFire(i) ==
  /\ mounted
  /\ socks[i].ct
  /\ Commit(connectionTimeoutCallback(Cur, i), "connectionTimeout", 0)
  /\ UNCHANGED <<mounted, torn>>

ReconnectFire(limit) ==
  /\ mounted
  /\ reconnectTimer.pending
  /\ CanConnect(Cur, limit)
  /\ Commit(reconnectCallback(Cur), "reconnectTimer", 0)
  /\ UNCHANGED <<mounted, torn>>

HeartbeatFire(stale, limit) ==
  /\ mounted
  /\ heartbeatTimer.pending
  /\ CanConnect(Cur, limit)
  /\ Commit(heartbeatCallback(Cur, stale), "heartbeatTimer", 0)
  /\ UNCHANGED <<mounted, torn>>

HealthIntervalFire ==
  /\ mounted
  /\ healthInterval.pending
  /\ Len(probes) < MaxProbes
  /\ Commit(healthIntervalCallback(Cur), "healthInterval", 0)
  /\ UNCHANGED <<mounted, torn>>

Remove(seq, k) == SubSeq(seq, 1, k - 1) \o SubSeq(seq, k + 1, Len(seq))

\* the fetch of probe k settled
ProbeDone(k, outcome) ==
  /\ mounted
  /\ k \in 1..Len(probes)
  /\ Commit(healthCheckDone([Cur EXCEPT !.probes = Remove(@, k)], probes[k], outcome),
            "probe", 0)
  /\ UNCHANGED <<mounted, torn>>

QueryTimerFire(t) ==
  /\ mounted
  /\ t \in qTimers
  /\ Commit(queryTimeoutCallback(Cur, t), "queryTimeout", 0)
  /\ UNCHANGED <<mounted, torn>>

\* Enter or the send button with q in the input
SendQuery(q) ==
  /\ mounted
  /\ ~torn.done
  /\ sendQueryOutcome(Cur, q) \in {"accepted", "sendfailed"} =>
       /\ nextTimer < MaxQueries
       /\ Len(messages) < MaxMsgs
  /\ Commit(sendQuery(Cur, q), "sendQuery", 0)
  /\ UNCHANGED <<mounted, torn>>

\* a Retry button
HandleReconnect(limit) ==
  /\ mounted
  /\ ~torn.done
  /\ RetryShown(Cur)
  /\ CanConnect(Cur, limit)
  /\ Commit(handleReconnect(Cur, CurEnv), "handleReconnect", 0)
  /\ UNCHANGED <<mounted, torn>>

Next ==
  \/ Mount
  \/ \E i \in Slots : OnOpen(i)
  \/ \E i \in Slots, f \in Frames : OnMessage(i, f)
  \/ Unmount
  \/ \E i \in Slots, code \in CloseCodes \cup ClientCloseCodes : OnClose(i, code)
  \/ \E i \in Slots, obs \in {"CONNECTING", "OPEN", "CLOSED"} : OnError(i, obs)
  \/ \E i \in Slots : ConnectionTimeoutFire(i)
  \/ ReconnectFire(MaxSockets)
  \/ \E stale \in BOOLEAN : HeartbeatFire(stale, MaxSockets)
  \/ HealthIntervalFire
  \/ \E k \in 1..MaxProbes, outcome \in {"ok", "bad", "throw"} : ProbeDone(k, outcome)
  \/ \E t \in 1..MaxQueries : QueryTimerFire(t)
  \/ \E q \in Queries : SendQuery(q)
  \/ HandleReconnect(MaxSockets)

Spec == Init /\ [][Next]_vars

\* The connection lifecycle alone: the peer sends no frame and the user
\* sends no query.
NextConn ==
  \/ Mount
  \/ \E i \in Slots : OnOpen(i)
  \/ \E i \in Slots, code \in CloseCodes : OnClose(i, code)
  \/ \E i \in Slots : ConnectionTimeoutFire(i)
  \/ \E k \in 1..MaxProbes, outcome \in {"ok", "bad", "throw"} : ProbeDone(k, outcome)
  \/ ReconnectFire(MaxConnSockets)
  \/ \E stale \in BOOLEAN : HeartbeatFire(stale, MaxConnSockets)
  \/ HandleReconnect(MaxConnSockets)

SpecConn == Init /\ [][NextConn]_vars

\* The connection lifecycle followed through enough retries to pass the
\* retry ceiling.
NextRetry ==
  \/ Mount
  \/ \E i \in Slots : OnOpen(i)
  \/ \E i \in Slots, code \in CloseCodes : OnClose(i, code)
  \/ \E i \in Slots : ConnectionTimeoutFire(i)
  \/ \E k \in 1..MaxProbes, outcome \in {"ok", "bad", "throw"} : ProbeDone(k, outcome)
  \/ ReconnectFire(MaxRetrySockets)
  \/ HandleReconnect(MaxRetrySockets)

SpecRetry == Init /\ [][NextRetry]_vars

\* The query lifecycle: queries, inbound frames, query timers and the Retry
\* button over connections that open and close; no heartbeat deadline, open
\* timeout or retry timer elapses and the health probes stay unanswered.
NextQuery ==
  \/ Mount
  \/ \E i \in Slots : OnOpen(i)
  \/ \E i \in Slots, f \in Frames : OnMessage(i, f)
  \/ \E i \in Slots, code \in CloseCodes : OnClose(i, code)
  \/ \E t \in 1..MaxQueries : QueryTimerFire(t)
  \/ \E q \in Queries : SendQuery(q)
  \/ HandleReconnect(MaxQuerySockets)

SpecQuery == Init /\ [][NextQuery]_vars

\* The health probes: connections that open, time out, close and are retried
\* by timer and by the Retry button, a peer that sends frames that are not
\* JSON, and health probes that are started and answered.
NextProbe ==
  \/ Mount
  \/ \E i \in Slots : OnOpen(i)
  \/ \E i \in Slots : OnMessage(i, Frame("badjson", "none", Text(0, 0, 0)))
  \/ \E i \in Slots, code \in CloseCodes : OnClose(i, code)
  \/ \E i \in Slots : ConnectionTimeoutFire(i)
  \/ ReconnectFire(MaxProbeSockets)
  \/ HandleReconnect(MaxProbeSockets)
  \/ HealthIntervalFire
  \/ \E k \in 1..MaxProbes, outcome \in {"ok", "bad", "throw"} : ProbeDone(k, outcome)

SpecProbe == Init /\ [][NextProbe]_vars

\* The teardown: a connection that opens, closes and is retried, and the
\* component being unmounted at any moment; the timers and sockets that
\* outlive the component go on firing.
NextTeardown ==
  \/ Mount
  \/ Unmount
  \/ \E i \in Slots : OnOpen(i)
  \/ \E i \in Slots, code \in CloseCodes \cup ClientCloseCodes : OnClose(i, code)
  \/ \E i \in Slots : ConnectionTimeoutFire(i)
  \/ ReconnectFire(MaxTeardownSockets)
  \/ \E stale \in BOOLEAN : HeartbeatFire(stale, MaxTeardownSockets)
  \/ \E k \in 1..MaxProbes, outcome \in {"ok", "bad", "throw"} : ProbeDone(k, outcome)

SpecTeardown == Init /\ [][NextTeardown]_vars

\* The transport failures: sockets that report an error event before their
\* close event, while connecting or while open, frames that are not JSON, and
\* the retries, automatic and manual, that follow.
NextError ==
  \/ Mount
  \/ \E i \in Slots : OnOpen(i)
  \/ \E i \in Slots : OnMessage(i, Frame("badjson", "none", Text(0, 0, 0)))
  \/ \E i \in Slots, obs \in {"CONNECTING", "OPEN", "CLOSED"} : OnError(i, obs)
  \/ \E i \in Slots, code \in CloseCodes : OnClose(i, code)
  \/ \E i \in Slots : ConnectionTimeoutFire(i)
  \/ ReconnectFire(MaxErrorSockets)
  \/ \E stale \in BOOLEAN : HeartbeatFire(stale, MaxErrorSockets)
  \/ HandleReconnect(MaxErrorSockets)
  \/ \E k \in 1..MaxProbes, outcome \in {"ok", "bad", "throw"} : ProbeDone(k, outcome)

SpecError == Init /\ [][NextError]_vars

\* Submitting while a second socket is still connecting: the connection
\* lifecycle with a manual retry, and queries typed at any moment.
NextSend ==
  \/ Mount
  \/ \E i \in Slots : OnOpen(i)
  \/ \E i \in Slots, code \in CloseCodes : OnClose(i, code)
  \/ \E i \in Slots : ConnectionTimeoutFire(i)
  \/ ReconnectFire(MaxSendSockets)
  \/ HandleReconnect(MaxSendSockets)
  \/ \E t \in 1..MaxQueries : QueryTimerFire(t)
  \/ \E q \in Queries : SendQuery(q)
  \/ \E k \in 1..MaxProbes, outcome \in {"ok", "bad", "throw"} : ProbeDone(k, outcome)

SpecSend == Init /\ [][NextSend]_vars

\* The chat log on its own: messages are appended one after the other, the
\* k-th carrying k as its content, until the log has overflowed.
MessageTypes == {"user", "log", "ai"}

\* the number of messages appended so far
Arrivals == IF last[1] = "addMessage" THEN last[2] ELSE 0

\* the types the k-th message can have: user, log, ai in turn while the log
\* fills up, any of them once it overflows
TypesAt(k) ==
  IF k > maxMessages THEN MessageTypes
  ELSE {IF k % 3 = 1 THEN "user" ELSE IF k % 3 = 2 THEN "log" ELSE "ai"}

AddMessage(type) ==
  /\ Arrivals < MaxArrivals
  /\ type \in TypesAt(Arrivals + 1)
  /\ Commit(addMessage(Cur, ChatMessage(type, Text(0, Arrivals + 1, 0))),
            "addMessage", Arrivals + 1)
  /\ UNCHANGED <<mounted, torn>>

NextBuffer == \E type \in MessageTypes : AddMessage(type)

SpecBuffer == Init /\ [][NextBuffer]_vars

\* ------------------------------------------------------------------ claims
\* A claim about what a handler does is stated on the handler itself: in
\* every reachable state, for every input the event can carry there, the
\* state the handler returns satisfies the claim.

\* the sockets whose close event can carry the code
Closable(code) == {i \in Live(Cur) : code \in CodesOf(socks[i])}

\* C1: a socket close with code 1000, in any connection state, leaves the
\* state disconnected with no reconnect timer pending and schedules no retry.
C1_NormalClose ==
  \A i \in Closable(1000) :
    LET t == onclose(Cur, i, 1000)
    IN  /\ t.connectionState = "disconnected"
        /\ ~t.reconnectTimer.pending
        /\ t.retriesSinceOpen = retriesSinceOpen

C1_Witness ==
  /\ last = <<"close", 1000>>
  /\ connectionState = "disconnected"
  /\ ~reconnectTimer.pending

\* C2: a socket close with code 1008 or 1003 leaves the state server_error
\* with a current error that is not retryable and no reconnect timer pending,
\* whatever the attempt count.
C2_Rejected ==
  \A code \in {1008, 1003} : \A i \in Closable(code) :
    LET t == onclose(Cur, i, code)
    IN  /\ t.connectionState = "server_error"
        /\ t.error.type = "server"
        /\ ~t.error.retryable
        /\ ~t.reconnectTimer.pending
        /\ t.retriesSinceOpen = retriesSinceOpen

C2_Witness ==
  /\ last \in {<<"close", 1008>>, <<"close", 1003>>}
  /\ connectionState = "server_error"
  /\ error.type = "server"
  /\ ~error.retryable
  /\ ~reconnectTimer.pending

C4_Backoff ==
  (last[1] = "close" /\ reconnectTimer.pending) =>
    /\ reconnectTimer.delay = Delay(retriesSinceOpen - 1)
    /\ reconnectTimer.env.rc = retryCount

\* C5: at most 5 automatic retries are scheduled between two successful opens
\* or manual reconnects; the abnormal close that follows the fifth schedules
\* nothing and leaves the state error.
C5_Ceiling ==
  /\ retriesSinceOpen <= maxRetries
  /\ \A i \in Closable(1006) :
       retriesSinceOpen = maxRetries =>
         LET t == onclose(Cur, i, 1006)
         IN  t.connectionState = "error" /\ ~t.reconnectTimer.pending

\* C6: connect() called while the connection state is connected creates no
\* socket and changes nothing.
C6_ConnectIdempotent ==
  connectionState = "connected" => connectWebSocket(Cur, CurEnv) = Cur

\* the queries that pass the emptiness and length checks
ValidQueries == {q \in Queries : trim(q).core > 0 /\ length(trim(q)) <= maxQueryLength}

\* C7: a query is accepted only while none is pending, and a submit made
\* while one is pending is rejected with a non-retryable error, leaving the
\* pending query, its armed timeout, the sockets and the chat unchanged.
C7_SinglePending ==
  /\ \A q \in Queries :
       sendQueryOutcome(Cur, q) \in {"accepted", "sendfailed"} => ~isLoading
  /\ (connectionState = "connected" /\ isLoading) =>
       \A q \in ValidQueries :
         LET t == sendQuery(Cur, q)
         IN  /\ t.error.type = "unknown"
             /\ ~t.error.retryable
             /\ [t EXCEPT !.error = error] = Cur

C7_Witness ==
  /\ last = <<"sendQuery", 0>>
  /\ error = createError("unknown", "Please wait for the current query to complete", FALSE)
  /\ isLoading
  /\ queryTimeout \in qTimers
  /\ Len(socks[wsRef].out) = 1

\* C8: when the heartbeat deadline passes on a connected session that has
\* received no liveness signal, the state becomes timeout and then
\* connecting, with a new transport being opened.
C8_HeartbeatStale ==
  (connectionState = "connected" /\ heartbeatTimer.pending) =>
    LET t == heartbeatCallback(Cur, TRUE)
    IN  /\ t.connectionState = "connecting"
        /\ Created(t) = Created(Cur) + 1
        /\ t.wsRef = Created(t)

\* the frames that fail to parse or lack a type or a string content
Malformed == {f \in Frames : f.shape # "typed"}

\* C9: a frame that does not parse, or that lacks a type or a string content,
\* only sets a retryable parse error: the connection state, the sockets and
\* any pending query with its timeout stay as they were.
C9_MalformedFrame ==
  \A i \in Live(Cur) : \A f \in Malformed :
    socks[i].rs = "OPEN" =>
      LET t == onmessage(Cur, i, f)
      IN  /\ t.error.type = "parse"
          /\ t.error.retryable
          /\ [t EXCEPT !.error = error] = Cur

C9_Witness ==
  /\ last = <<"message", 0>>
  /\ error.type = "parse"
  /\ error.retryable
  /\ connectionState = "connected"
  /\ isLoading
  /\ queryTimeout \in qTimers

\* C10: an accepted submit writes exactly one frame, the trimmed query, to
\* the socket and arms the 30 s query timeout; a final_output frame arriving
\* before the timeout cancels it and appends its content to the chat once.
C10_QueryRoundTrip ==
  /\ \A q \in Queries :
       sendQueryOutcome(Cur, q) = "accepted" =>
         LET t == sendQuery(Cur, q)
         IN  /\ t.socks[wsRef].out = Append(socks[wsRef].out, trim(q))
             /\ \A i \in Slots \ {wsRef} : t.socks[i] = socks[i]
             /\ t.queryTimeout \in t.qTimers
             /\ t.qTimers = qTimers \cup {t.queryTimeout}
             /\ t.isLoading
  /\ (isLoading /\ queryTimeout \in qTimers /\ wsRef # NullRef) =>
       \A c \in Contents \ {Text(0, 0, 0)} :
         socks[wsRef].rs = "OPEN" =>
           LET t == onmessage(Cur, wsRef, Frame("typed", "final_output", c))
           IN  /\ queryTimeout \notin t.qTimers
               /\ ~t.isLoading
               /\ t.messages = Append(messages, ChatMessage("ai", c))

\* C11: when the open timeout of a socket that is still connecting fires, the
\* socket is force-closed, the state becomes timeout and the current error is
\* a retryable timeout error; the close event of the force-closed socket then
\* schedules a retry, after 1000 ms when the attempt count is 0.
C11_OpenTimeout ==
  /\ \A i \in Live(Cur) :
       (socks[i].ct /\ socks[i].rs = "CONNECTING") =>
         LET t == connectionTimeoutCallback(Cur, i)
         IN  /\ t.socks[i].rs = "CLOSING"
             /\ t.connectionState = "timeout"
             /\ t.error.type = "timeout"
             /\ t.error.retryable
  /\ \A i \in Live(Cur) :
       (socks[i].rs = "CLOSING" /\ retryCount = 0) =>
         LET t == onclose(Cur, i, 1006)
         IN  /\ t.reconnectTimer.pending
             /\ t.reconnectTimer.delay = 1000

\* the texts a submit is examined on: the queries typed, 499 characters
\* between two blanks (502 characters, 499 once trimmed) and 500 characters
SubmitTexts == Queries \cup {Text(1, 499, 2), Text(0, 500, 0)}

ValidTexts ==
  {q \in SubmitTexts : trim(q).core > 0 /\ length(trim(q)) <= maxQueryLength}

\* C13: a submit of a valid text while the connection state is not connected
\* fails with a connection error and changes nothing else: no frame is
\* written, no query becomes pending and no query timeout is armed.  No
\* submit at all writes a frame in a state other than connected.
C13_NotConnected ==
  connectionState # "connected" =>
    /\ \A q \in ValidTexts :
         LET t == sendQuery(Cur, q)
         IN  /\ t.error.type = "connection"
             /\ [t EXCEPT !.error = error] = Cur
    /\ \A q \in SubmitTexts :
         LET t == sendQuery(Cur, q)
         IN  /\ t.socks = socks
             /\ t.isLoading = isLoading
             /\ t.qTimers = qTimers

C13_Witness ==
  /\ last = <<"sendQuery", 0>>
  /\ error = createError("connection", "Not connected to server. Please wait for connection.", TRUE)
  /\ connectionState = "connecting"
  /\ ~isLoading
  /\ qTimers = {}
  /\ socks[wsRef].out = <<>>

\* C14: when the query timeout fires while the query is pending, the pending
\* query is cleared and the current error becomes a retryable timeout error;
\* the connection state, the sockets, the attempt count and the reconnect,
\* heartbeat and health timers are untouched.
C14_QueryTimeout ==
  \A t \in qTimers :
    LET r == queryTimeoutCallback(Cur, t)
    IN  /\ ~r.isLoading
        /\ r.error.type = "timeout"
        /\ r.error.retryable
        /\ r.qTimers = qTimers \ {t}
        /\ [r EXCEPT !.error = error, !.isLoading = isLoading,
                     !.qTimers = qTimers] = Cur

C14_Witness ==
  /\ last = <<"queryTimeout", 0>>
  /\ connectionState = "connected"
  /\ socks[wsRef].rs = "OPEN"
  /\ Len(socks[wsRef].out) = 1
  /\ messages = <<ChatMessage("user", Text(0, 16, 0))>>
  /\ ~isLoading
  /\ error.type = "timeout"
  /\ error.retryable
  /\ ~reconnectTimer.pending

\* C15: a well-formed final_output frame, whatever its content (the empty
\* string included), leaves no query pending and no query timeout armed, and
\* appends its content to the chat as one message.
C15_FinalOutput ==
  \A i \in Live(Cur) : \A c \in Contents :
    socks[i].rs = "OPEN" =>
      LET t == onmessage(Cur, i, Frame("typed", "final_output", c))
      IN  /\ ~t.isLoading
          /\ t.qTimers = {}
          /\ t.messages = Append(messages, ChatMessage("ai", c))

\* C16: no caller operation makes a second submit acceptable while the query
\* written to the open socket is unresolved: after reconnect() invoked while
\* connected with that query pending, a submit is not accepted on the same
\* socket.
C16_SingleInFlight ==
  (/\ connectionState = "connected"
   /\ isLoading
   /\ ReadyState(Cur) = "OPEN"
   /\ Len(socks[wsRef].out) = 1
   /\ RetryShown(Cur)) =>
    LET r == handleReconnect(Cur, CurEnv)
    IN  \A q \in ValidTexts :
          ~(/\ r.wsRef = wsRef
            /\ sendQueryOutcome(r, q) = "accepted"
            /\ Len(sendQuery(r, q).socks[wsRef].out) = 2)

\* the outcomes of a health probe
ProbeOutcomes == {"ok", "bad", "throw"}

\* C17: the outcome of a health probe never changes the connection state,
\* the sockets, the attempt count, the pending query or any timer; a failed
\* probe sets a server (response not ok) or network (transport error)
\* error, and only when the connection state is connected.
C17_ProbeAdvisory ==
  \A k \in 1..Len(probes) : \A outcome \in ProbeOutcomes :
    LET t == healthCheckDone(Cur, probes[k], outcome)
    IN  /\ [t EXCEPT !.error = error] = Cur
        /\ t.error # error =>
             \/ outcome = "ok" /\ t.error = NoError
             \/ /\ outcome = "bad"
                /\ t.error.type = "server"
                /\ connectionState = "connected"
             \/ /\ outcome = "throw"
                /\ t.error.type = "network"
                /\ connectionState = "connected"

\* the errors a failed health probe sets
AdvisoryErrors ==
  {createError("server", "Backend service may be experiencing issues", TRUE),
   createError("network", "Backend service health check failed", TRUE)}

\* C18: when the current error is the advisory error that a failed health
\* probe set, server or network, a probe that succeeds afterwards clears the
\* current error.
C18_AdvisoryCleared ==
  \A k \in 1..Len(probes) :
    error \in AdvisoryErrors =>
      healthCheckDone(Cur, probes[k], "ok").error = NoError

\* C19: once the component is unmounted no timer of any kind is pending (the
\* reconnect timer and the open timeouts, the heartbeat timer, the health
\* interval, the query timers), the socket in use is closed, and no later
\* timer or close event schedules a retry or creates a socket.
C19_Teardown ==
  torn.done =>
    /\ ~reconnectTimer.pending
    /\ \A i \in Slots : ~socks[i].ct
    /\ ~heartbeatTimer.pending
    /\ ~healthInterval.pending
    /\ qTimers = {}
    /\ ReadyState(Cur) \notin {"CONNECTING", "OPEN"}
    /\ Created(Cur) = torn.created
    /\ \A i \in Live(Cur) : \A code \in CodesOf(socks[i]) :
         ~onclose(Cur, i, code).reconnectTimer.pending


\* C20: reconnect() invoked in the state error, or in the state server_error
\* that a 1008 or 1003 close left, resets the attempt count to 0, clears the
\* current error, cancels the pending reconnect timer and starts a new
\* attempt: the state becomes connecting, with a new socket whose open
\* timeout is armed.
C20_ManualReconnect ==
  connectionState \in {"error", "server_error"} =>
    LET t == handleReconnect(Cur, CurEnv)
    IN  /\ t.retryCount = 0
        /\ t.error = NoError
        /\ ~t.reconnectTimer.pending
        /\ t.connectionState = "connecting"
        /\ Created(t) = Created(Cur) + 1
        /\ t.wsRef = Created(t)
        /\ t.socks[t.wsRef].rs = "CONNECTING"
        /\ t.socks[t.wsRef].ct


\* C21: on the open event of any socket the state becomes connected, the
\* attempt count 0 and the current error none, the open timeout of the socket
\* is cancelled, the heartbeat timer is armed, the health interval is armed
\* and one health probe is started.
C21_SocketOpen ==
  \A i \in Live(Cur) :
    socks[i].rs = "CONNECTING" =>
      LET t == onopen([Cur EXCEPT !.socks[i].rs = "OPEN"], i)
      IN  /\ t.connectionState = "connected"
          /\ t.retryCount = 0
          /\ t.error = NoError
          /\ ~t.socks[i].ct
          /\ t.heartbeatTimer.pending
          /\ t.heartbeatTimer.delay = heartbeatTimeoutMs
          /\ t.healthInterval.pending
          /\ t.healthInterval.delay = healthCheckIntervalMs
          /\ Len(t.probes) = Len(probes) + 1

C21_Witness ==
  /\ last = <<"open", 0>>
  /\ Created(Cur) = 2
  /\ connectionState = "connected"
  /\ retryCount = 0
  /\ error = NoError
  /\ ~socks[wsRef].ct
  /\ heartbeatTimer.pending
  /\ healthInterval.pending
  /\ Len(probes) = 1


\* C22: the state error is terminal: it is entered only when the retries are
\* exhausted, no retry is pending in it, and no close or open event of a
\* socket moves the session out of it or schedules a retry.
C22_ErrorTerminal ==
  connectionState = "error" =>
    /\ retryCount >= maxRetries
    /\ ~reconnectTimer.pending
    /\ \A i \in Live(Cur) :
         /\ \A code \in CodesOf(socks[i]) :
              LET t == onclose(Cur, i, code)
              IN  t.connectionState = "error" /\ ~t.reconnectTimer.pending
         /\ socks[i].rs = "CONNECTING" =>
              onopen([Cur EXCEPT !.socks[i].rs = "OPEN"], i).connectionState = "error"


\* the frames the decoder accepts: a type of the protocol and a string content
Decoded ==
  {f \in Frames : f.shape = "typed" /\
                  f.type \in {"heartbeat", "log", "final_output", "connection_status"}}

\* C23: every decoded frame (heartbeat, log, final_output, connection_status)
\* arriving on an open socket records the time of arrival as the last
\* heartbeat and arms the 60 s heartbeat timer again.
C23_AnyFrameIsLiveness ==
  \A i \in Live(Cur) :
    socks[i].rs = "OPEN" =>
      \A f \in Decoded :
        LET t == onmessage(Cur, i, f)
        IN  /\ t.hbSet
            /\ t.heartbeatTimer = Timer(heartbeatTimeoutMs, HeartbeatEnv(socks[i].env))


\* C24: a frame that parses and has a string content but a type outside
\* heartbeat, log, final_output and connection_status sets a retryable parse
\* error and changes nothing else.
C24_UnknownType ==
  \A i \in Live(Cur) :
    socks[i].rs = "OPEN" =>
      \A f \in {g \in Frames : g.shape = "typed" /\ g.type = "other"} :
        LET t == onmessage(Cur, i, f)
        IN  /\ t.error.type = "parse"
            /\ t.error.retryable
            /\ [t EXCEPT !.error = error] = Cur


\* C25: a close with a code other than 1000, 1008, 1003 and 1013 leaves the
\* state reconnecting with the reconnect timer pending when the attempt count
\* is below the ceiling, and leaves the state error with no reconnect timer
\* pending when the attempt count has reached the ceiling.
C25_AbnormalClose ==
  \A i \in Closable(1006) :
    LET t == onclose(Cur, i, 1006)
    IN  IF retryCount < maxRetries
        THEN t.connectionState = "reconnecting" /\ t.reconnectTimer.pending
        ELSE t.connectionState = "error" /\ ~t.reconnectTimer.pending


\* C26: the health interval is armed only while the state is connected, and
\* every open event, which enters connected, starts a health probe at once.
C26_ProberOnlyConnected ==
  /\ healthInterval.pending => connectionState = "connected"
  /\ \A i \in Live(Cur) :
       socks[i].rs = "CONNECTING" =>
         LET t == onopen([Cur EXCEPT !.socks[i].rs = "OPEN"], i)
         IN  Len(t.probes) = Len(probes) + 1


\* C27: when the heartbeat timer fires while the state is not connected, the
\* callback changes nothing: connection state, error, attempt count, pending
\* query and sockets are as before, whatever the staleness test yields.
C27_HeartbeatIgnored ==
  (heartbeatTimer.pending /\ connectionState # "connected") =>
    \A stale \in BOOLEAN :
      heartbeatCallback(Cur, stale) = [Cur EXCEPT !.heartbeatTimer = NoTimer]


\* C28: whenever the state is connected, the heartbeat timer and the health
\* interval are armed.
C28_MonitorsWhileConnected ==
  connectionState = "connected" =>
    heartbeatTimer.pending /\ healthInterval.pending


\* C29: after a close that schedules a retry, the current error is a
\* retryable connection error "Reconnecting in" that carries the number of
\* seconds of the timer's delay, rounded up, and the attempt index, the
\* attempt count plus one.
C29_RetryNotice ==
  (last[1] = "close" /\ reconnectTimer.pending) =>
    /\ error.type = "connection"
    /\ error.message = "Reconnecting in"
    /\ error.retryable
    /\ error.secs = CeilSecs(reconnectTimer.delay)
    /\ error.attempt = retryCount + 1


\* C30: a heartbeat frame changes nothing but the heartbeat timer and the
\* time of the last heartbeat, and a connection_status frame changes nothing:
\* neither appends a chat message nor changes connection state, error or
\* pending query.  A log frame appends exactly one chat message of type log
\* with the frame's content and changes nothing else.
C30_FrameEffects ==
  \A i \in Live(Cur) :
    socks[i].rs = "OPEN" =>
      \A f \in Decoded :
        LET t == onmessage(Cur, i, f)
        IN  /\ f.type = "connection_status" => t = Cur
            /\ f.type = "heartbeat" =>
                 [t EXCEPT !.hbSet = FALSE, !.heartbeatTimer = heartbeatTimer] = Cur
            /\ f.type = "log" =>
                 t = [Cur EXCEPT !.messages =
                        Append(messages, ChatMessage("log", f.content))]

C30_Witness ==
  /\ last = <<"message", 0>>
  /\ connectionState = "connected"
  /\ isLoading
  /\ queryTimeout \in qTimers
  /\ Len(messages) = 2
  /\ messages[2].type = "log"


\* C31: when ws.send throws during an accepted submit, the query timer just
\* armed is cancelled, no query is pending, the error is a retryable network
\* error and the connection state is unchanged.
C31_SendRollback ==
  \A q \in SubmitTexts :
    sendQueryOutcome(Cur, q) = "sendfailed" =>
      LET t == sendQuery(Cur, q)
      IN  /\ t.qTimers = qTimers
          /\ t.queryTimeout = 0
          /\ ~t.isLoading
          /\ t.error.type = "network"
          /\ t.error.retryable
          /\ t.connectionState = connectionState

C31_Witness ==
  /\ last = <<"sendQuery", 0>>
  /\ connectionState = "connected"
  /\ socks[wsRef].rs = "CONNECTING"
  /\ error.type = "network"
  /\ error.retryable
  /\ ~isLoading
  /\ qTimers = {}
  /\ queryTimeout = 0


\* C32: in the state reconnecting a reconnect timer is pending, and when it
\* expires the state becomes connecting; this is the step on which the
\* claim that reconnecting is left under fair firing of the timers rests.
C32_ReconnectingIsTransient ==
  connectionState = "reconnecting" =>
    /\ reconnectTimer.pending
    /\ reconnectCallback(Cur).connectionState = "connecting"


\* C33: whenever a query is pending (isLoading), the state is connected.
C33_PendingOnlyConnected ==
  isLoading => connectionState = "connected"


\* C34: a query timer is armed exactly when a query is pending.
C34_TimerIffPending ==
  (qTimers # {}) <=> isLoading


\* C35: at most one socket is connecting or open at any time, and the close
\* event of a socket other than the current one changes neither the
\* connection state, the error nor the timers.
C35_SingleLiveTransport ==
  /\ Cardinality({i \in Slots : socks[i].rs \in {"CONNECTING", "OPEN"}}) <= 1
  /\ \A i \in Live(Cur) \ {wsRef} :
       \A code \in CodesOf(socks[i]) :
         LET t == onclose(Cur, i, code)
         IN  /\ t.connectionState = connectionState
             /\ t.error = error
             /\ t.reconnectTimer = reconnectTimer
             /\ t.heartbeatTimer = heartbeatTimer
             /\ t.healthInterval = healthInterval


\* C36: the socket in wsRef is open exactly when the state is connected.
C36_StateAgreesWithTransport ==
  (ReadyState(Cur) = "OPEN") <=> (connectionState = "connected")


\* C37: whenever the reconnect timer is pending the state is reconnecting,
\* and a manual reconnect leaves no reconnect timer pending.
C37_ReconnectTimer ==
  /\ reconnectTimer.pending => connectionState = "reconnecting"
  /\ ~handleReconnect(Cur, CurEnv).reconnectTimer.pending


\* C38: the error event of a socket sets the state error, clears the pending
\* query, cancels the socket's connection timeout and leaves the attempt
\* count alone; the error is retryable, of type network if the socket had
\* not opened yet and of type connection if it was open.
C38_TransportError ==
  \A i \in Live(Cur) :
    socks[i].rs \in {"CONNECTING", "OPEN"} =>
      \A obs \in {socks[i].rs, "CLOSED"} :
        LET t == onerror(Cur, i, obs)
        IN  /\ t.connectionState = "error"
            /\ ~t.isLoading
            /\ ~t.socks[i].ct
            /\ t.retryCount = retryCount
            /\ t.error.retryable
            /\ t.error.type =
                 IF socks[i].rs = "CONNECTING" THEN "network" ELSE "connection"


\* C39: the chat log never holds more than 100 messages: after n messages
\* were appended it holds the last min(n, 100) of them in the order of their
\* arrival.
C39_BufferCap ==
  LET n == Arrivals
      len == Len(messages)
  IN  /\ len <= maxMessages
      /\ len = Min(n, maxMessages)
      /\ \A j \in 1..len :
           /\ messages[j].content = Text(0, n - len + j, 0)
           /\ messages[j].type \in TypesAt(n - len + j)

C39_Witness ==
  /\ Arrivals = maxMessages + 2
  /\ Len(messages) = maxMessages
  /\ messages[1].content = Text(0, 3, 0)

====
